---- MODULE Spec2Model ----
(***************************************************************************)
(* Model of the streaming translator App (src/unnamed/part_001, the App    *)
(* component at lines 817-1004): the React state, the refs, the            *)
(* asynchronous startSession, the stopSession cleanup, the callbacks the   *)
(* live transport invokes (onopen, onmessage, onclose, onerror) and the    *)
(* playback scheduling done inside onmessage.  The module also models the  *)
(* PCM codec (lines 779-815, 914-921), the sending of captured chunks      *)
(* (lines 909-934), translateText (src/services/geminiService.ts) and the  *)
(* local-recognition App (lines 1188-1350), which has the React state of   *)
(* the streaming App and is modelled on the same variables; a behaviour    *)
(* runs one of the two.  Where the first (lines 46-200) or the second       *)
(* (lines 418-612) variant of the streaming App differs from the third in  *)
(* what is modelled, the variable `variant` selects the code.              *)
(*                                                                         *)
(* Start attempts are numbered 1..MaxSessions.  Attempt i owns the objects *)
(* its startSession call creates: input AudioContext i, output             *)
(* AudioContext i, MediaStream i and live connection i.  A ref or a state  *)
(* holding such an object holds the number i; 0 stands for null.           *)
(*                                                                         *)
(* A callback created by startSession closes over the values the React     *)
(* state had in the render whose toggleRecording started the attempt:      *)
(* cap[i] keeps those values (stream, transcript, translation).            *)
(***************************************************************************)
EXTENDS Integers, Sequences, FiniteSets, TLC

\* ---------------------------------------------------------------- bounds
MaxSessions == 2
MaxInFlight == 2
MaxHistory == 2
MaxTime == 4
MaxUnits == 3
MaxDur == 2
MaxCaptured == 2

Sessions == 1..MaxSessions
NoField == "<none>"
TextsIn == {"", "Hello"}
TextsOut == {"", "Hola"}

VARIABLES
  status, isRecording, transcript, translation, history, stream,
  sessionRef, inputAudioContextRef, outputAudioContextRef,
  nextStartTimeRef, sourcesRef,
  pc, conn, opened, mic, inCtx, outCtx, cap,
  currentTime, units, pending,
  turn, released, intrSince,
  sourceLang, targetLang, gender, recognitionRef,
  lpc, rec, lcap, timer, inflight, speech, speaking,
  codec, call, variant, capture

reactState == <<status, isRecording, transcript, translation, history, stream>>
refs == <<sessionRef, inputAudioContextRef, outputAudioContextRef>>
playback == <<nextStartTimeRef, sourcesRef, currentTime, units>>
objects == <<pc, conn, opened, mic, inCtx, outCtx, cap>>
\* The state of the local-recognition App (lines 1188-1350) beyond the React
\* state it has in common with the streaming App, the state of a PCM chunk
\* on its way through the codec, and the state of a translateText call.
localOnly == <<sourceLang, targetLang, gender, recognitionRef, lpc, rec, lcap,
               timer, inflight, speech, speaking>>
notCapture == <<localOnly, codec, call, variant>>
notStreaming == <<notCapture, capture>>
vars == <<reactState, refs, playback, objects, pending, turn, released, intrSince,
          localOnly, codec, call, variant, capture>>

\* The closure values of an attempt none of whose callbacks can run any
\* more.
NoCap == [stream |-> 0, transcript |-> "", translation |-> ""]

\* A SpeechRecognition object that does not exist yet, and the closure
\* values of a startListening call that has not been made.
NoRec == [st |-> "none", lang |-> ""]
NoLCap == [isRecording |-> FALSE, sourceLang |-> "auto", targetLang |-> "en-US",
           gender |-> "male"]

\* No PCM chunk is in the codec.
NoChunk == [stage |-> "idle", cycle |-> 0, first |-> <<>>, input |-> <<>>,
            sent |-> <<>>, base64 |-> <<>>, received |-> <<>>, output |-> <<>>]

\* No call of translateText has been made.
NoCall == [stage |-> "idle", text |-> "", targetLang |-> "", modelName |-> "",
           resp |-> "", called |-> FALSE, outcome |-> [kind |-> "returned", value |-> ""],
           backend |-> 0]

\* The chunks attempt i's onaudioprocess has captured: those whose
\* sessionPromise.then callback is waiting for the promise (queued), those
\* handed to session.sendRealtimeInput (sent), and how many of the sent
\* ones had waited (flushed).
NoCapture == [queued |-> 0, sent |-> 0, flushed |-> 0]

NoPending == [s |-> 0, ctx |-> 0, dur |-> 0, tc |-> FALSE, intr |-> FALSE]
NoTurn == [s |-> 0, inT |-> "", outT |-> "", done |-> FALSE, scen |-> 0]

\* The state after the first render of the App.
InitApp ==
  /\ status = "Klar"
  /\ isRecording = FALSE
  /\ transcript = ""
  /\ translation = ""
  /\ history = <<>>
  /\ stream = 0
  /\ sessionRef = 0
  /\ inputAudioContextRef = 0
  /\ outputAudioContextRef = 0
  /\ nextStartTimeRef = 0
  /\ sourcesRef = {}
  /\ pc = [i \in Sessions |-> "unused"]
  /\ conn = [i \in Sessions |-> "none"]
  /\ opened = [i \in Sessions |-> FALSE]
  /\ mic = [i \in Sessions |-> "none"]
  /\ inCtx = [i \in Sessions |-> "none"]
  /\ outCtx = [i \in Sessions |-> "none"]
  /\ cap = [i \in Sessions |-> NoCap]
  /\ currentTime = [i \in Sessions |-> 0]
  /\ units = <<>>
  /\ pending = NoPending
  /\ turn = NoTurn
  /\ released = <<>>
  /\ intrSince = FALSE
  /\ sourceLang = "auto"
  /\ targetLang = "en-US"
  /\ gender = "male"
  /\ recognitionRef = 0
  /\ lpc = [j \in Sessions |-> "unused"]
  /\ rec = [j \in Sessions |-> NoRec]
  /\ lcap = [j \in Sessions |-> NoLCap]
  /\ timer = [j \in Sessions |-> FALSE]
  /\ inflight = <<>>
  /\ speech = <<>>
  /\ speaking = FALSE
  /\ codec = NoChunk
  /\ call = NoCall
  /\ capture = [i \in Sessions |-> NoCapture]

\* The variants of the streaming App in part_001: the first (lines 46-200),
\* the second (lines 418-612) and the third (lines 817-1004).  The third is
\* the one the specifications model unless they say otherwise.
Variants == {1, 2, 3}

Init == InitApp /\ variant = 3

\* The same, for any variant.
InitVariants == InitApp /\ variant \in Variants

\* The same, for the variants that resume the audio contexts in
\* startSession: the second and the third.
InitLater == InitApp /\ variant \in Variants \ {1}

\* A scheduler that lets a handler start while another one is suspended.
IdleAlways == TRUE
\* A handler runs to its next await before any other handler starts; the
\* continuation of onmessage's await of decodeAudioData (an async function
\* that never suspends) is a microtask, so it runs before any other event.
Idle == pending.s = 0

\* A close() that connects again.
Reconnect(c) == IF c \in {"connecting", "open"} THEN "connecting" ELSE c
\* session.close() on the live connection: the transport will report the
\* close through onclose later.
CloseConn(c) == IF c \in {"connecting", "open"} THEN "closing" ELSE c

\* A cleanup that stops the tracks before it closes the session.
ReleaseOpsTracksFirst(s) ==
  (IF s # 0 THEN <<[op |-> "track.stop", of |-> s]>> ELSE <<>>)
  \o (IF sessionRef # 0 THEN <<[op |-> "session.close", of |-> sessionRef]>> ELSE <<>>)
  \o (IF inputAudioContextRef # 0
        THEN <<[op |-> "inputCtx.close", of |-> inputAudioContextRef]>> ELSE <<>>)
\* The release operations stopSession performs, in program order, when its
\* closure holds stream value s.
ReleaseOps(s) ==
  (IF sessionRef # 0 THEN <<[op |-> "session.close", of |-> sessionRef]>> ELSE <<>>)
  \o (IF s # 0 THEN <<[op |-> "track.stop", of |-> s]>> ELSE <<>>)
  \o (IF inputAudioContextRef # 0
        THEN <<[op |-> "inputCtx.close", of |-> inputAudioContextRef]>> ELSE <<>>)

\* A cleanup that also closes the output audio context, clears its ref and
\* resets the playback scheduler.
OutputReleased ==
  /\ outCtx' = IF outputAudioContextRef # 0
                 THEN [outCtx EXCEPT ![outputAudioContextRef] = "closed"] ELSE outCtx
  /\ outputAudioContextRef' = 0
  /\ nextStartTimeRef' = 0
  /\ sourcesRef' = {}
\* What stopSession does about the output side: nothing.  It has no
\* statement on outputAudioContextRef, the output context, nextStartTimeRef
\* or sourcesRef.
OutputKept == UNCHANGED <<outputAudioContextRef, outCtx, nextStartTimeRef, sourcesRef>>

\* stopSession as created by the render in which `stream` was s; conn0 is
\* the connection table at the moment the handler calls it.
StopSession(s, conn0) ==
  /\ isRecording' = FALSE
  /\ conn' = IF sessionRef # 0
               THEN [conn0 EXCEPT ![sessionRef] = CloseConn(@)] ELSE conn0
  /\ sessionRef' = 0
  /\ mic' = IF s # 0 THEN [mic EXCEPT ![s] = "stopped"] ELSE mic
  /\ stream' = IF s # 0 THEN 0 ELSE stream
  /\ inCtx' = IF inputAudioContextRef # 0
                THEN [inCtx EXCEPT ![inputAudioContextRef] = "closed"] ELSE inCtx
  /\ inputAudioContextRef' = 0
  /\ status' = "Klar"
  /\ released' = ReleaseOps(s)
  /\ OutputKept

\* toggleRecording while isRecording: stopSession of the current render.
ToggleStop ==
  /\ Idle
  /\ isRecording
  /\ StopSession(stream, conn)
  /\ UNCHANGED <<transcript, translation, history, currentTime, units, pc, opened,
                 cap, pending, turn, intrSince>>
  /\ UNCHANGED notStreaming

\* The start attempts whose startSession has not returned yet.
InFlight == {j \in Sessions : pc[j] \in {"resume", "getMedia", "connect"}}

\* toggleRecording while not isRecording: startSession up to its first
\* await: inputCtx.resume() in the third variant; getUserMedia in the first,
\* which assigns the context refs before it.
StartAttempt(i, k) ==
  /\ Idle
  /\ ~isRecording
  /\ pc[i] = "unused"
  /\ Cardinality(InFlight) < k
  /\ \A j \in Sessions : j < i => pc[j] # "unused"
  /\ status' = "Lytter..."
  /\ inCtx' = [inCtx EXCEPT ![i] = "open"]
  /\ outCtx' = [outCtx EXCEPT ![i] = "open"]
  /\ cap' = [cap EXCEPT ![i] = [stream |-> stream, transcript |-> transcript,
                                translation |-> translation]]
  /\ IF variant = 1
       THEN /\ inputAudioContextRef' = i
            /\ outputAudioContextRef' = i
            /\ pc' = [pc EXCEPT ![i] = "getMedia"]
       ELSE /\ pc' = [pc EXCEPT ![i] = "resume"]
            /\ UNCHANGED <<inputAudioContextRef, outputAudioContextRef>>
  /\ UNCHANGED <<isRecording, transcript, translation, history, stream, sessionRef,
                 playback, conn, opened, mic, pending, turn, released, intrSince>>
  /\ UNCHANGED notStreaming

ToggleStart(i) == StartAttempt(i, MaxInFlight)

\* await inputCtx.resume() and await outputCtx.resume() complete (nothing
\* runs between the two awaits); the refs are assigned and getUserMedia is
\* awaited.
Resumed(i) ==
  /\ Idle
  /\ pc[i] = "resume"
  /\ inputAudioContextRef' = i
  /\ outputAudioContextRef' = i
  /\ pc' = [pc EXCEPT ![i] = "getMedia"]
  /\ UNCHANGED <<reactState, sessionRef, playback, conn, opened, mic, inCtx,
                 outCtx, cap, pending, turn, released, intrSince>>
  /\ UNCHANGED notStreaming

\* getUserMedia resolves: setStream, ai.live.connect is called and the
\* returned promise awaited.
GetMediaOk(i) ==
  /\ Idle
  /\ pc[i] = "getMedia"
  /\ mic' = [mic EXCEPT ![i] = "live"]
  /\ stream' = i
  /\ conn' = [conn EXCEPT ![i] = "connecting"]
  /\ pc' = [pc EXCEPT ![i] = "connect"]
  /\ UNCHANGED <<status, isRecording, transcript, translation, history, refs,
                 playback, opened, inCtx, outCtx, cap, pending, turn, released, intrSince>>
  /\ UNCHANGED notStreaming

\* The body of startSession's catch block.
CatchStart == status' = "Error"

\* getUserMedia rejects (permission denied, no device): the catch block.
GetMediaFail(i) ==
  /\ Idle
  /\ pc[i] = "getMedia"
  /\ CatchStart
  /\ pc' = [pc EXCEPT ![i] = "failed"]
  /\ cap' = [cap EXCEPT ![i] = NoCap]
  /\ UNCHANGED <<isRecording, transcript, translation, history, stream, refs,
                 playback, conn, opened, mic, inCtx, outCtx, pending, turn,
                 released, intrSince>>
  /\ UNCHANGED notStreaming

\* callbacks.onopen
OnOpen(i) ==
  /\ Idle
  /\ conn[i] = "connecting"
  /\ conn' = [conn EXCEPT ![i] = "open"]
  /\ opened' = [opened EXCEPT ![i] = TRUE]
  /\ isRecording' = TRUE
  /\ UNCHANGED <<status, transcript, translation, history, stream, refs,
                 playback, pc, mic, inCtx, outCtx, cap, pending, turn, released, intrSince>>
  /\ UNCHANGED notStreaming

\* A promise whose then callbacks run at once.
ResolvedAlways(i) == TRUE
\* sessionPromise of attempt i has resolved to the session: the handshake
\* has completed.
Resolved(i) == pc[i] = "done"

\* sessionPromise resolves: the continuation of `await sessionPromise`
\* assigns sessionRef.current = session, then the then callbacks the
\* onaudioprocess events have registered run in order, each sending its
\* chunk.
ConnectResolve(i) ==
  /\ Idle
  /\ pc[i] = "connect"
  /\ opened[i]
  /\ sessionRef' = i
  /\ pc' = [pc EXCEPT ![i] = "done"]
  /\ capture' = [capture EXCEPT ![i] = [queued |-> 0, sent |-> @.sent + @.queued,
                                        flushed |-> @.queued]]
  /\ UNCHANGED <<reactState, inputAudioContextRef, outputAudioContextRef,
                 playback, conn, opened, mic, inCtx, outCtx, cap, pending, turn,
                 released, intrSince>>
  /\ UNCHANGED notCapture

\* scriptProcessor.onaudioprocess of attempt i: the processor exists once
\* onopen has run and fires while the input context is running.  The chunk
\* is encoded and sessionPromise.then(session => session.sendRealtimeInput)
\* is called: the callback runs at once when the promise has resolved and
\* waits for it otherwise.
AudioProcessEvent(i) ==
  /\ Idle
  /\ opened[i]
  /\ inCtx[i] = "open"
  /\ capture[i].queued + capture[i].sent < MaxCaptured
  /\ capture' = [capture EXCEPT ![i] = IF Resolved(i)
                                         THEN [@ EXCEPT !.sent = @ + 1]
                                         ELSE [@ EXCEPT !.queued = @ + 1]]
  /\ UNCHANGED <<reactState, refs, playback, objects, pending, turn, released,
                 intrSince>>
  /\ UNCHANGED notCapture

\* await sessionPromise rejects (handshake failure): the catch block.
ConnectReject(i) ==
  /\ Idle
  /\ pc[i] = "connect"
  /\ ~opened[i]
  /\ conn[i] = "connecting"
  /\ CatchStart
  /\ conn' = [conn EXCEPT ![i] = "closed"]
  /\ pc' = [pc EXCEPT ![i] = "failed"]
  /\ cap' = [cap EXCEPT ![i] = NoCap]
  /\ UNCHANGED <<isRecording, transcript, translation, history, stream, refs,
                 playback, opened, mic, inCtx, outCtx, pending, turn,
                 released, intrSince>>
  /\ UNCHANGED notStreaming

\* sessionPromise settles after the transport has reported close or error
\* on a connection that never opened.  How the promise settles then is the
\* library's choice: when it resolves, `sessionRef.current = await
\* sessionPromise` assigns the session; when it rejects, the catch block
\* runs.
SettleAfterClose(i, resolves) ==
  /\ Idle
  /\ pc[i] = "connect"
  /\ ~opened[i]
  /\ conn[i] \in {"closing", "closed"}
  /\ IF resolves
       THEN /\ sessionRef' = i
            /\ pc' = [pc EXCEPT ![i] = "done"]
            /\ UNCHANGED status
       ELSE /\ CatchStart
            /\ pc' = [pc EXCEPT ![i] = "failed"]
            /\ UNCHANGED sessionRef
  /\ UNCHANGED <<isRecording, transcript, translation, history, stream,
                 inputAudioContextRef, outputAudioContextRef, playback, conn,
                 opened, mic, inCtx, outCtx, cap, pending, turn, released,
                 intrSince>>
  /\ UNCHANGED notStreaming

\* callbacks.onclose: () => stopSession(), the stopSession of the render
\* that started attempt i.
OnClose(i) ==
  /\ Idle
  /\ conn[i] \in {"connecting", "open", "closing"}
  /\ StopSession(cap[i].stream, [conn EXCEPT ![i] = "closed"])
  /\ cap' = [cap EXCEPT ![i] = NoCap]
  /\ UNCHANGED <<transcript, translation, history, currentTime, units, pc, opened,
                 pending, turn, intrSince>>
  /\ UNCHANGED notStreaming

\* callbacks.onerror: setStatus('Error'); stopSession().  Both state
\* updates are applied in order, so the status stopSession sets is the one
\* that remains.
OnError(i) ==
  /\ Idle
  /\ conn[i] \in {"connecting", "open"}
  /\ StopSession(cap[i].stream, [conn EXCEPT ![i] = "closing"])
  /\ UNCHANGED <<transcript, translation, history, currentTime, units, pc, opened,
                 cap, pending, turn, intrSince>>
  /\ UNCHANGED notStreaming

Lifecycle ==
  \/ ToggleStop
  \/ \E i \in Sessions : ToggleStart(i)
  \/ \E i \in Sessions : Resumed(i)
  \/ \E i \in Sessions : GetMediaOk(i)
  \/ \E i \in Sessions : GetMediaFail(i)
  \/ \E i \in Sessions : OnOpen(i)
  \/ \E i \in Sessions : ConnectResolve(i)
  \/ \E i \in Sessions : ConnectReject(i)
  \/ \E i \in Sessions : OnClose(i)
  \/ \E i \in Sessions : OnError(i)

\* ------------------------------------------------------------ onmessage
Max(a, b) == IF a >= b THEN a ELSE b

\* The shapes of LiveServerMessage.serverContent the model delivers.  A
\* transcription field is either absent (NoField) or carries a text;
\* audio is the duration of the inline audio payload, 0 when there is none
\* and OddPayload when the payload decodes to an odd number of bytes.
OddPayload == -1
Msg(inT, outT, audio, tc, intr) ==
  [inT |-> inT, outT |-> outT, audio |-> audio, tc |-> tc, intr |-> intr]

TextMsgs ==
  { Msg(a, b, 0, tc, FALSE) :
      a \in TextsIn \cup {NoField}, b \in TextsOut \cup {NoField}, tc \in BOOLEAN }
  \ { Msg(NoField, NoField, 0, FALSE, FALSE) }

AudioMsgs ==
  { Msg(NoField, NoField, d, FALSE, intr) : d \in 0..MaxDur, intr \in BOOLEAN }
  \ { Msg(NoField, NoField, 0, FALSE, FALSE) }

BadAudioMsgs == { Msg(NoField, NoField, OddPayload, FALSE, intr) : intr \in BOOLEAN }

\* The new state value after the transcription part of onmessage:
\* setTranscript(text) / setTranslation(text) in the third variant,
\* setTranscript(prev => text || prev) in the first.
SetText(old, field) ==
  IF field = NoField THEN old
  ELSE IF variant = 1 /\ field = "" THEN old
  ELSE field

\* History variable: the connection s that delivered the last message, the
\* texts it has delivered for its turn in progress (done: the turn's
\* turn-complete has been processed), and how far the turn follows the
\* pattern input-only message, output-only message, turn-complete-only
\* message (scen = 1, 2, 3).
TurnAfter(t, i, m) ==
  LET base == IF t.done \/ t.s # i THEN NoTurn ELSE t
      inputOnly == /\ m.inT \notin {NoField, ""} /\ m.outT = NoField
                   /\ m.audio = 0 /\ ~m.tc /\ ~m.intr
      outputOnly == /\ m.outT \notin {NoField, ""} /\ m.inT = NoField
                    /\ m.audio = 0 /\ ~m.tc /\ ~m.intr
      tcOnly == /\ m.tc /\ m.inT = NoField /\ m.outT = NoField
                /\ m.audio = 0 /\ ~m.intr
  IN [s |-> i,
      inT |-> SetText(base.inT, m.inT),
      outT |-> SetText(base.outT, m.outT),
      done |-> FALSE,
      scen |-> IF inputOnly THEN 1
               ELSE IF outputOnly /\ base.scen = 1 THEN 2
               ELSE IF tcOnly /\ base.scen = 2 THEN 3
               ELSE 0]

\* The item the turn-complete branch prepends (timestamp and the language
\* labels are left out).
HistoryItem(orig, trans) == [originalText |-> orig, translatedText |-> trans]

\* `if (transcript && translation)` as evaluated inside attempt i's
\* onmessage: both names are the values the closure captured.
HasContent(i) == cap[i].transcript # "" /\ cap[i].translation # ""

\* An update that adds the item at the tail.
Appended(item, h) == h \o <<item>>
\* prev => [item, ...prev]
Prepended(item, h) == <<item>> \o h

\* setHistory(prev => [item, ...prev]) of the turn-complete branch; the
\* first variant has no test around it.
HistoryAfterTurn(i, h) ==
  IF variant = 1 \/ HasContent(i)
    THEN Prepended(HistoryItem(cap[i].transcript, cap[i].translation), h)
    ELSE h

\* The interrupted branch: every source in sourcesRef is stopped, the set
\* is cleared and the anchor is reset.
StopAll(us, S) ==
  [k \in DOMAIN us |-> IF k \in S THEN [us[k] EXCEPT !.st = "stopped"] ELSE us[k]]
\* A clear() that is missing.
ClearSourcesKept(S) == S
ClearSources(S) == {}
AnchorAfterInterrupt == 0

\* nextStartTimeRef.current = Math.max(nextStartTimeRef.current, ctx.currentTime)
AnchorAtArrival(ns, clock) == Max(ns, clock)
\* An anchor that is not advanced.
AnchorNotAdvanced(ns, dur) == ns
\* nextStartTimeRef.current += audioBuffer.duration
AnchorAfterStart(ns, dur) == ns + dur

\* sourceNode.start(nextStartTimeRef.current): the start time handed to
\* the source.
StartTime(ns) == ns

\* The status after the turnComplete and interrupted branches: the first
\* and the third variant set 'Lytter...' in the turnComplete branch, the
\* second sets it in the interrupted branch.
StatusAfterBranches(tc, intr, st) ==
  IF variant = 2
    THEN (IF intr THEN "Lytter..." ELSE st)
    ELSE (IF tc THEN "Lytter..." ELSE st)

\* The anchor onmessage leaves before it awaits the decode: the first and
\* the third variant take the maximum with the clock there, the second
\* takes it after the decode.
AnchorBeforeDecode(ns, clock) == IF variant = 2 THEN ns ELSE AnchorAtArrival(ns, clock)
AnchorAfterDecode(ns, clock) == IF variant = 2 THEN AnchorAtArrival(ns, clock) ELSE ns

\* The turnComplete and interrupted branches that end onmessage, applied to
\* the values st, ns, S, us the handler has produced so far.
Finish(i, tc, intr, st, ns, S, us, since) ==
  /\ status' = StatusAfterBranches(tc, intr, st)
  /\ history' = IF tc THEN HistoryAfterTurn(i, history) ELSE history
  /\ units' = IF intr THEN StopAll(us, S) ELSE us
  /\ sourcesRef' = IF intr THEN ClearSources(S) ELSE S
  /\ nextStartTimeRef' = IF intr THEN AnchorAfterInterrupt ELSE ns
  /\ intrSince' = (intr \/ since)

\* callbacks.onmessage for message m on attempt i's connection, up to the
\* await of decodeAudioData when m carries audio, to its end otherwise.
OnMessage(i, m) ==
  /\ Idle
  /\ conn[i] \in {"open", "closing"}
  /\ m.tc => Len(history) < MaxHistory
  /\ m.audio > 0 => Len(units) < MaxUnits
  /\ transcript' = SetText(transcript, m.inT)
  /\ translation' = SetText(translation, m.outT)
  /\ IF m.audio # 0 /\ outputAudioContextRef # 0
       THEN /\ nextStartTimeRef' =
                 AnchorBeforeDecode(nextStartTimeRef, currentTime[outputAudioContextRef])
            /\ pending' = [s |-> i, ctx |-> outputAudioContextRef, dur |-> m.audio,
                           tc |-> m.tc, intr |-> m.intr]
            /\ turn' = TurnAfter(turn, i, m)
            /\ UNCHANGED <<status, history, sourcesRef, units, intrSince>>
       ELSE /\ Finish(i, m.tc, m.intr, status, nextStartTimeRef, sourcesRef, units,
                      intrSince)
            /\ turn' = [TurnAfter(turn, i, m) EXCEPT !.done = m.tc]
            /\ UNCHANGED pending
  /\ UNCHANGED <<isRecording, stream, refs, currentTime, objects, released>>
  /\ UNCHANGED notStreaming

\* The rest of onmessage after decodeAudioData: the source is created,
\* started at the anchor and registered, then the turnComplete and
\* interrupted branches run.  When decodeAudioData throws (new Int16Array
\* on an odd byte length) the await throws and nothing catches it: onmessage
\* ends there.
OnMessageResume ==
  /\ pending.s # 0
  /\ IF pending.dur = OddPayload
       THEN UNCHANGED <<status, history, units, sourcesRef, nextStartTimeRef,
                        intrSince, turn>>
       ELSE /\ LET ns == AnchorAfterDecode(nextStartTimeRef, currentTime[pending.ctx])
                   u == [start |-> StartTime(ns), dur |-> pending.dur,
                         st |-> "scheduled", ctx |-> pending.ctx]
                   us == Append(units, u)
               IN Finish(pending.s, pending.tc, pending.intr, "Taler...",
                         AnchorAfterStart(ns, pending.dur),
                         sourcesRef \cup {Len(us)}, us, FALSE)
            /\ turn' = [turn EXCEPT !.done = pending.tc]
  /\ pending' = NoPending
  /\ UNCHANGED <<isRecording, transcript, translation, stream, refs, currentTime,
                 objects, released>>
  /\ UNCHANGED notStreaming

\* An onended that deletes nothing.
DeleteNothing(S, u) == S
\* sourcesRef.current.delete(sourceNode)
DeleteSource(S, u) == S \ {u}

\* sourceNode.onended after the unit has played to its end; in the second
\* variant it also sets the status when the set has become empty.
SourceEnded(u) ==
  /\ Idle
  /\ u \in DOMAIN units
  /\ units[u].st = "scheduled"
  /\ currentTime[units[u].ctx] >= units[u].start + units[u].dur
  /\ units' = [units EXCEPT ![u].st = "ended"]
  /\ sourcesRef' = DeleteSource(sourcesRef, u)
  /\ status' = IF variant = 2 /\ sourcesRef' = {} THEN "Lytter..." ELSE status
  /\ UNCHANGED <<isRecording, transcript, translation, history, stream, refs,
                 nextStartTimeRef, currentTime, objects, pending, turn, released,
                 intrSince>>
  /\ UNCHANGED notStreaming

\* The audio thread advances the clock of output context c; it does so
\* independently of the handlers, also while onmessage awaits the decode.
Tick(c) ==
  /\ outCtx[c] = "open"
  /\ currentTime[c] < MaxTime
  /\ currentTime' = [currentTime EXCEPT ![c] = @ + 1]
  /\ UNCHANGED <<reactState, refs, nextStartTimeRef, sourcesRef, units, objects,
                 pending, turn, released, intrSince>>
  /\ UNCHANGED notStreaming

\* ------------------------------------------- the local-recognition App
\* The App at lines 1188-1350: speech recognition and speech synthesis of
\* the browser, the translation through translateText.  startListening call
\* j owns MediaStream j and SpeechRecognition j.  The handlers of
\* recognition j close over the render that called startListening: lcap[j]
\* keeps the isRecording, sourceLang, targetLang and gender of that render.
SourceLangs == {"auto", "da-DK"}
TargetLangs == {"en-US", "da-DK"}
Genders == {"male", "female"}
Interims == {"", "Hel"}
Finals == {"", "Hello", " "}
Throws == "<throws>"
Responses == {Throws, NoField, "", " ", "Hola", " Hola "}
RecErrors == {"no-speech", "network"}

\* The variables only the streaming App uses.
notLocal == <<refs, playback, pc, conn, opened, inCtx, outCtx, cap, pending, turn,
              released, intrSince, codec, call, variant, capture>>

ListenInFlight == {j \in Sessions : lpc[j] = "getMedia"}

\* recognition.lang = sourceLang === 'auto' ? '' : sourceLang
RecLang(src) == IF src = "auto" THEN "" ELSE src

\* recognition.stop()
StopRec(r) == IF r.st \in {"starting", "running"} THEN [r EXCEPT !.st = "stopping"] ELSE r

\* recognition.start(): it throws when the recognition is already started,
\* which changes nothing.
StartRec(r) == IF r.st = "ended" THEN [r EXCEPT !.st = "starting"] ELSE r

\* startListening, called in a render where isRecording is r and sourceLang
\* is src, up to its await of getUserMedia.
BeginListening(j, r, src) ==
  /\ lpc[j] = "unused"
  /\ \A k \in Sessions : k < j => lpc[k] # "unused"
  /\ lpc' = [lpc EXCEPT ![j] = "getMedia"]
  /\ lcap' = [lcap EXCEPT ![j] = [isRecording |-> r, sourceLang |-> src,
                                  targetLang |-> targetLang, gender |-> gender]]

\* toggleRecording while not isRecording.
ToggleStartListening(j) ==
  /\ ~isRecording
  /\ Cardinality(ListenInFlight) < MaxInFlight
  /\ BeginListening(j, FALSE, sourceLang)
  /\ UNCHANGED <<reactState, mic, sourceLang, targetLang, gender, recognitionRef,
                 rec, timer, inflight, speech, speaking>>
  /\ UNCHANGED notLocal

\* getUserMedia resolves: setStream, the recognition is created, its
\* handlers are set, recognitionRef holds it and start() is called.
ListenMediaOk(j) ==
  /\ lpc[j] = "getMedia"
  /\ mic' = [mic EXCEPT ![j] = "live"]
  /\ stream' = j
  /\ rec' = [rec EXCEPT ![j] = [st |-> "starting", lang |-> RecLang(lcap[j].sourceLang)]]
  /\ recognitionRef' = j
  /\ lpc' = [lpc EXCEPT ![j] = "done"]
  /\ UNCHANGED <<status, isRecording, transcript, translation, history, sourceLang,
                 targetLang, gender, lcap, timer, inflight, speech, speaking>>
  /\ UNCHANGED notLocal

\* getUserMedia rejects: the catch block.
ListenMediaFail(j) ==
  /\ lpc[j] = "getMedia"
  /\ status' = "Error"
  /\ lpc' = [lpc EXCEPT ![j] = "failed"]
  /\ UNCHANGED <<isRecording, transcript, translation, history, stream, mic,
                 sourceLang, targetLang, gender, recognitionRef, rec, lcap, timer,
                 inflight, speech, speaking>>
  /\ UNCHANGED notLocal

\* stopListening of a render whose stream is s.
StopListening(s) ==
  /\ isRecording' = FALSE
  /\ rec' = IF recognitionRef # 0
              THEN [rec EXCEPT ![recognitionRef] = StopRec(@)] ELSE rec
  /\ recognitionRef' = 0
  /\ mic' = IF s # 0 THEN [mic EXCEPT ![s] = "stopped"] ELSE mic
  /\ stream' = IF s # 0 THEN 0 ELSE stream
  /\ status' = "Klar"
  /\ speech' = <<>>
  /\ speaking' = FALSE

\* toggleRecording while isRecording.
ToggleStopListening ==
  /\ isRecording
  /\ StopListening(stream)
  /\ UNCHANGED <<transcript, translation, history, sourceLang, targetLang, gender,
                 lpc, lcap, timer, inflight>>
  /\ UNCHANGED notLocal

\* The source-language select changes to l; after the render the effect on
\* [sourceLang] runs: if (isRecording) { stopListening(); startListening() }.
SetSourceLang(l) ==
  /\ l # sourceLang
  /\ sourceLang' = l
  /\ IF isRecording
       THEN /\ StopListening(stream)
            /\ \E j \in Sessions : BeginListening(j, TRUE, l)
       ELSE UNCHANGED <<status, isRecording, stream, mic, recognitionRef, rec, lpc,
                        lcap, speech, speaking>>
  /\ UNCHANGED <<transcript, translation, history, targetLang, gender, timer, inflight>>
  /\ UNCHANGED notLocal

\* The target-language select changes to l.
SetTargetLang(l) ==
  /\ l # targetLang
  /\ targetLang' = l
  /\ UNCHANGED <<reactState, mic, sourceLang, gender, recognitionRef, lpc, rec, lcap,
                 timer, inflight, speech, speaking>>
  /\ UNCHANGED notLocal

\* A gender button is clicked.
SetGender(g) ==
  /\ g # gender
  /\ gender' = g
  /\ UNCHANGED <<reactState, mic, sourceLang, targetLang, recognitionRef, lpc, rec,
                 lcap, timer, inflight, speech, speaking>>
  /\ UNCHANGED notLocal

\* recognition.onstart
RecOnStart(j) ==
  /\ rec[j].st = "starting"
  /\ rec' = [rec EXCEPT ![j].st = "running"]
  /\ isRecording' = TRUE
  /\ status' = "Lytter..."
  /\ UNCHANGED <<transcript, translation, history, stream, mic, sourceLang,
                 targetLang, gender, recognitionRef, lpc, lcap, timer, inflight,
                 speech, speaking>>
  /\ UNCHANGED notLocal

\* String.prototype.trim, with the space as the only white space.
RECURSIVE TrimStart(_)
TrimStart(t) ==
  IF Len(t) > 0 /\ SubSeq(t, 1, 1) = " " THEN TrimStart(SubSeq(t, 2, Len(t))) ELSE t
RECURSIVE TrimEnd(_)
TrimEnd(t) ==
  IF Len(t) > 0 /\ SubSeq(t, Len(t), Len(t)) = " "
    THEN TrimEnd(SubSeq(t, 1, Len(t) - 1)) ELSE t
\* A trim that removes nothing.
TrimNothing(t) == t
Trim(t) == TrimEnd(TrimStart(t))

\* `!text.trim()`
Blank(text) == Trim(text) = ""

\* The way a block of translateText ends: it returns a value or it throws.
Returned(v) == [kind |-> "returned", value |-> v]
Thrown == [kind |-> "thrown", value |-> ""]

\* The try block once the backend call has ended with resp: the await
\* throws when the call failed; otherwise
\* `return response.text?.trim() || 'Translation failed'`, where
\* response.text is undefined (NoField) or a text.
TryBlock(resp) ==
  IF resp = Throws THEN Thrown
  ELSE IF resp = NoField \/ Trim(resp) = "" THEN Returned("Translation failed")
  ELSE Returned(Trim(resp))

\* A try without a catch.
Uncaught(o) == o
\* catch (error) { console.error(...); return 'Error in translation service' }
Catch(o) == IF o.kind = "thrown" THEN Returned("Error in translation service") ELSE o

\* The settlement of the promise translateText(text, ...) returned, when
\* the backend call, if one is made, ends with resp.
Settlement(text, resp) ==
  IF Blank(text) THEN Returned("") ELSE Catch(TryBlock(resp))

\* The value `await translateText(text, ...)` gives its caller.
TranslateText(text, resp) == Settlement(text, resp).value

\* speak(text): the utterance is queued unless the text is empty.
Speak(text, q) == IF text = "" THEN q ELSE Append(q, text)

\* The rest of onresult after `await translateText(...)` gave translated
\* for the final transcript final.
AfterTranslation(final, translated) ==
  /\ translation' = translated
  /\ history' = Prepended(HistoryItem(final, translated), history)
  /\ speech' = Speak(translated, speech)

\* recognition.onresult with the interim and final texts of the event, up
\* to the await of translateText (the status literal is the one of line
\* 1285, which is not the 'Oversætter...' of AppStatus); translateText returns without suspending
\* when the text is blank, and then the handler runs to its end.
RecOnResult(j, interim, final) ==
  /\ rec[j].st \in {"running", "stopping"}
  /\ interim # "" \/ final # ""
  /\ transcript' = IF final # "" THEN final
                   ELSE IF interim # "" THEN interim ELSE transcript
  /\ IF final = ""
       THEN UNCHANGED <<status, translation, history, inflight, speech>>
       ELSE /\ status' = "OversÃ¦tter..."
            /\ IF Trim(final) = ""
                 THEN /\ Len(history) < MaxHistory
                      /\ AfterTranslation(final, TranslateText(final, Throws))
                      /\ UNCHANGED inflight
                 ELSE /\ Len(inflight) < MaxInFlight
                      /\ inflight' = Append(inflight, [rec |-> j, text |-> final])
                      /\ UNCHANGED <<translation, history, speech>>
  /\ UNCHANGED <<isRecording, stream, mic, sourceLang, targetLang, gender,
                 recognitionRef, lpc, rec, lcap, timer, speaking>>
  /\ UNCHANGED notLocal

\* The backend call of the k-th translation in flight ends with resp and
\* onresult resumes.
TranslateDone(k, resp) ==
  /\ k \in DOMAIN inflight
  /\ Len(history) < MaxHistory
  /\ AfterTranslation(inflight[k].text, TranslateText(inflight[k].text, resp))
  /\ inflight' = [n \in 1..(Len(inflight) - 1) |->
                    IF n < k THEN inflight[n] ELSE inflight[n + 1]]
  /\ UNCHANGED <<status, isRecording, transcript, stream, mic, sourceLang,
                 targetLang, gender, recognitionRef, lpc, rec, lcap, timer, speaking>>
  /\ UNCHANGED notLocal

\* utterance.onstart of the utterance at the head of the queue.
UtteranceStart ==
  /\ speech # <<>>
  /\ ~speaking
  /\ speaking' = TRUE
  /\ status' = "Taler..."
  /\ UNCHANGED <<isRecording, transcript, translation, history, stream, mic,
                 sourceLang, targetLang, gender, recognitionRef, lpc, rec, lcap,
                 timer, inflight, speech>>
  /\ UNCHANGED notLocal

\* utterance.onend
UtteranceEnd ==
  /\ speaking
  /\ speech' = Tail(speech)
  /\ speaking' = FALSE
  /\ status' = "Lytter..."
  /\ UNCHANGED <<isRecording, transcript, translation, history, stream, mic,
                 sourceLang, targetLang, gender, recognitionRef, lpc, rec, lcap,
                 timer, inflight>>
  /\ UNCHANGED notLocal

\* recognition.onerror with event.error = e; the recognition ends after an
\* error, and for 'no-speech' the handler calls stop() and sets the timeout.
RecOnError(j, e) ==
  /\ rec[j].st \in {"starting", "running"}
  /\ status' = "Error"
  /\ rec' = [rec EXCEPT ![j].st = "stopping"]
  /\ timer' = [timer EXCEPT ![j] = @ \/ (e = "no-speech")]
  /\ UNCHANGED <<isRecording, transcript, translation, history, stream, mic,
                 sourceLang, targetLang, gender, recognitionRef, lpc, lcap, inflight,
                 speech, speaking>>
  /\ UNCHANGED notLocal

\* recognition.onend, after stop(), after an error or when the engine ends
\* the recognition by itself: if (isRecording) recognition.start().
RecOnEnd(j) ==
  /\ rec[j].st \in {"running", "stopping"}
  /\ rec' = [rec EXCEPT ![j] = IF lcap[j].isRecording
                                 THEN StartRec([@ EXCEPT !.st = "ended"])
                                 ELSE [@ EXCEPT !.st = "ended"]]
  /\ UNCHANGED <<reactState, mic, sourceLang, targetLang, gender, recognitionRef,
                 lpc, lcap, timer, inflight, speech, speaking>>
  /\ UNCHANGED notLocal

\* The timeout set by onerror fires: if (isRecording) recognition.start().
RestartTimer(j) ==
  /\ timer[j]
  /\ timer' = [timer EXCEPT ![j] = FALSE]
  /\ rec' = [rec EXCEPT ![j] = IF lcap[j].isRecording THEN StartRec(@) ELSE @]
  /\ UNCHANGED <<reactState, mic, sourceLang, targetLang, gender, recognitionRef,
                 lpc, lcap, inflight, speech, speaking>>
  /\ UNCHANGED notLocal

\* The user's clicks and the completions of startListening.
Listening ==
  \/ ToggleStopListening
  \/ \E j \in Sessions : ToggleStartListening(j)
  \/ \E j \in Sessions : ListenMediaOk(j)
  \/ \E j \in Sessions : ListenMediaFail(j)
  \/ \E j \in Sessions : RecOnStart(j)
  \/ \E j \in Sessions : RecOnEnd(j)

\* -------------------------------------------------------- the PCM codec
\* A float sample x is held as the integer n with x = n / (Int16Scale *
\* Resolution): Resolution sub-steps per 16-bit quantization step.  A
\* decoded sample y is held as the 16-bit integer v with y = v / Int16Scale.
Int16Scale == 32768
Resolution == 2
MaxChunk == 2
MaxCycles == 2

One == Int16Scale * Resolution
\* The samples a chunk is made of: -1, 0 and 1, their neighbours, and values
\* between two quantization steps.
SampleValues ==
  {-One, 1 - One, -1, 0, 1, Resolution + 1, One - 1, One}

RECURSIVE SeqsUpTo(_, _)
SeqsUpTo(S, n) ==
  IF n = 0 THEN {<<>>}
  ELSE LET shorter == SeqsUpTo(S, n - 1)
       IN shorter \cup {Append(q, x) : q \in shorter, x \in S}

Chunks == SeqsUpTo(SampleValues, MaxChunk)

\* The number x * 32768, truncated toward zero.
Truncated(n) == IF n >= 0 THEN n \div Resolution ELSE -((-n) \div Resolution)

\* int16[i] = inputData[i] * 32768: the store into an Int16Array truncates
\* and keeps the low 16 bits as a signed integer.
\* A store that clamps the value to the 16-bit range.
FloatToInt16Clamped(n) ==
  IF Truncated(n) > 32767 THEN 32767
  ELSE IF Truncated(n) < -32768 THEN -32768 ELSE Truncated(n)
\* A store that adds one to the value.
FloatToInt16Biased(n) == ((Truncated(n) + 1 + 32768) % 65536) - 32768
FloatToInt16(n) == ((Truncated(n) + 32768) % 65536) - 32768

\* new Uint8Array(int16.buffer): two bytes per sample, low byte first.
Int16ToBytes(v) == <<(v % 65536) % 256, (v % 65536) \div 256>>

RECURSIVE BytesOf(_)
BytesOf(vs) == IF vs = <<>> THEN <<>> ELSE Int16ToBytes(Head(vs)) \o BytesOf(Tail(vs))

\* btoa of the binary string whose character codes are the bytes b: a
\* sequence of 6-bit digits, 64 standing for the padding character '='.
RECURSIVE Btoa(_)
Btoa(b) ==
  IF Len(b) = 0 THEN <<>>
  ELSE IF Len(b) = 1
    THEN <<b[1] \div 4, (b[1] % 4) * 16, 64, 64>>
  ELSE IF Len(b) = 2
    THEN <<b[1] \div 4, (b[1] % 4) * 16 + b[2] \div 16, (b[2] % 16) * 4, 64>>
  ELSE <<b[1] \div 4, (b[1] % 4) * 16 + b[2] \div 16,
         (b[2] % 16) * 4 + b[3] \div 64, b[3] % 64>>
       \o Btoa(SubSeq(b, 4, Len(b)))

\* encode(bytes)
Encode(b) == Btoa(b)

\* atob: the character codes of the binary string the base64 text s stands
\* for.
RECURSIVE Atob(_)
Atob(s) ==
  IF Len(s) < 4 THEN <<>>
  ELSE (IF s[3] = 64 THEN <<s[1] * 4 + s[2] \div 16>>
        ELSE IF s[4] = 64
          THEN <<s[1] * 4 + s[2] \div 16, (s[2] % 16) * 16 + s[3] \div 4>>
        ELSE <<s[1] * 4 + s[2] \div 16, (s[2] % 16) * 16 + s[3] \div 4,
               (s[3] % 4) * 64 + s[4]>>)
       \o Atob(SubSeq(s, 5, Len(s)))

\* decode(base64)
Decode(s) == Atob(s)

\* new Int16Array(data.buffer) throws a RangeError when the byte length is
\* not a multiple of 2.
DecodeThrows(b) == Len(b) % 2 # 0

\* dataInt16[i]: the signed 16-bit value of bytes 2i-1 and 2i.
Int16At(b, i) ==
  LET u == b[2 * i - 1] + 256 * b[2 * i]
  IN IF u >= 32768 THEN u - 65536 ELSE u

\* decodeAudioData(data, ctx, 24000, 1) for an even byte length: sample i
\* is dataInt16[i] / 32768.0, held as dataInt16[i].
DecodeAudioData(b) == [i \in 1..(Len(b) \div 2) |-> Int16At(b, i)]

\* The chunk after onaudioprocess has encoded the samples x in cycle c of a
\* chunk whose first input was f.
Encoded(x, f, c) ==
  LET bytes == BytesOf([i \in 1..Len(x) |-> FloatToInt16(x[i])])
  IN [stage |-> "encoded", cycle |-> c, first |-> f, input |-> x, sent |-> bytes,
      base64 |-> Encode(bytes), received |-> <<>>, output |-> <<>>]

\* scriptProcessor.onaudioprocess with input samples x.
OnAudioProcess(x) ==
  /\ codec.stage = "idle"
  /\ codec' = Encoded(x, x, 1)
  /\ UNCHANGED <<reactState, refs, playback, objects, pending, turn, released,
                 intrSince, localOnly, call, variant, capture>>

\* The payload is decoded: decode, then decodeAudioData.
DecodeChunk ==
  /\ codec.stage = "encoded"
  /\ LET bytes == Decode(codec.base64)
     IN codec' = IF DecodeThrows(bytes)
                   THEN [codec EXCEPT !.stage = "failed", !.received = bytes]
                   ELSE [codec EXCEPT !.stage = "decoded", !.received = bytes,
                                      !.output = DecodeAudioData(bytes)]
  /\ UNCHANGED <<reactState, refs, playback, objects, pending, turn, released,
                 intrSince, localOnly, call, variant, capture>>

\* The decoded samples are the input of a further encode/decode cycle.
Reencode ==
  /\ codec.stage = "decoded"
  /\ codec.cycle < MaxCycles
  /\ codec' = Encoded([i \in 1..Len(codec.output) |-> codec.output[i] * Resolution],
                      codec.first, codec.cycle + 1)
  /\ UNCHANGED <<reactState, refs, playback, objects, pending, turn, released,
                 intrSince, localOnly, call, variant, capture>>

NextCodec ==
  \/ \E x \in Chunks : OnAudioProcess(x)
  \/ DecodeChunk
  \/ Reencode

SpecCodec == Init /\ [][NextCodec]_vars

\* -------------------------------------------------- the translation service
\* translateText (src/services/geminiService.ts) called on its own: the
\* texts, target language names and model names of the calls, and the
\* number of backend calls made so far, at most MaxCalls.
MaxCalls == 2
CallTexts == Finals \cup {"  ", "Hi", " Hello "}
LanguageNames == {"Dansk", "English"}
ModelNames == {"gemini-3-flash-preview", "gemini-3-pro-preview"}

\* translateText(text, targetLang, modelName) up to its first await: it
\* returns '' for a blank text, otherwise it calls ai.models.generateContent
\* and awaits the response.
TranslateCall(text, lang, model) ==
  /\ call.stage # "awaiting"
  /\ IF Blank(text)
       THEN call' = [stage |-> "settled", text |-> text, targetLang |-> lang,
                     modelName |-> model, resp |-> "", called |-> FALSE,
                     outcome |-> Settlement(text, ""), backend |-> call.backend]
       ELSE /\ call.backend < MaxCalls
            /\ call' = [stage |-> "awaiting", text |-> text, targetLang |-> lang,
                        modelName |-> model, resp |-> "", called |-> TRUE,
                        outcome |-> Returned(""), backend |-> call.backend + 1]
  /\ UNCHANGED <<reactState, refs, playback, objects, pending, turn, released,
                 intrSince, localOnly, codec, variant, capture>>

\* The backend call ends with resp: the promise of translateText settles.
BackendEnd(resp) ==
  /\ call.stage = "awaiting"
  /\ call' = [call EXCEPT !.stage = "settled", !.resp = resp,
                          !.outcome = Settlement(call.text, resp)]
  /\ UNCHANGED <<reactState, refs, playback, objects, pending, turn, released,
                 intrSince, localOnly, codec, variant, capture>>

NextTranslate ==
  \/ \E t \in CallTexts, l \in LanguageNames, m \in ModelNames : TranslateCall(t, l, m)
  \/ \E r \in Responses : BackendEnd(r)

SpecTranslate == Init /\ [][NextTranslate]_vars

\* ------------------------------------------------------- specifications
\* Every ordering of user clicks, completions and transport callbacks of
\* the session lifecycle.
Next == Lifecycle

Spec == Init /\ [][Next]_vars

\* One attempt at a time: no click while an attempt is in flight and no
\* failed start.
Sequential ==
  \/ ToggleStop
  \/ \E i \in Sessions : StartAttempt(i, 1)
  \/ \E i \in Sessions : Resumed(i)
  \/ \E i \in Sessions : GetMediaOk(i)
  \/ \E i \in Sessions : OnOpen(i)
  \/ \E i \in Sessions : ConnectResolve(i)
  \/ \E i \in Sessions : OnClose(i)

SpecSeq == Init /\ [][Sequential]_vars

\* One attempt at a time, with the failures of a start and the errors of
\* the transport.
NextFailures ==
  \/ Sequential
  \/ \E i \in Sessions : GetMediaFail(i)
  \/ \E i \in Sessions : ConnectReject(i)
  \/ \E i \in Sessions : OnError(i)

SpecFailures == Init /\ [][NextFailures]_vars

\* The same, with the settlement of the connect promise after a close or
\* error that came before the connection opened.
NextConnecting ==
  \/ NextFailures
  \/ \E i \in Sessions, resolves \in BOOLEAN : SettleAfterClose(i, resolves)

SpecConnecting == Init /\ [][NextConnecting]_vars

\* onmessage on a connection that is open.
Deliver(i, m) == conn[i] = "open" /\ OnMessage(i, m)

\* One attempt at a time, with the transcription and turn-complete
\* messages.
NextTurn ==
  \/ Sequential
  \/ \E i \in Sessions, m \in TextMsgs : Deliver(i, m)

SpecTurn == Init /\ [][NextTurn]_vars

\* A single successful start, with the audio and interrupted messages, the
\* output clock and the natural end of playback.
StartOnly ==
  \/ \E i \in Sessions : StartAttempt(i, 1)
  \/ \E i \in Sessions : Resumed(i)
  \/ \E i \in Sessions : GetMediaOk(i)
  \/ \E i \in Sessions : OnOpen(i)
  \/ \E i \in Sessions : ConnectResolve(i)

NextPlay ==
  \/ StartOnly
  \/ \E i \in Sessions, m \in AudioMsgs : Deliver(i, m)
  \/ OnMessageResume
  \/ \E u \in 1..MaxUnits : SourceEnded(u)
  \/ \E c \in Sessions : Tick(c)

SpecPlay == Init /\ [][NextPlay]_vars

\* The same, with audio payloads of odd byte length among the messages.
NextBadAudio ==
  \/ NextPlay
  \/ \E i \in Sessions, m \in BadAudioMsgs : Deliver(i, m)

SpecBadAudio == Init /\ [][NextBadAudio]_vars

\* The local-recognition App with the configuration controls.
NextConfig ==
  \/ Listening
  \/ \E l \in SourceLangs : SetSourceLang(l)
  \/ \E l \in TargetLangs : SetTargetLang(l)
  \/ \E g \in Genders : SetGender(g)

SpecConfig == Init /\ [][NextConfig]_vars

\* The local-recognition App with recognition errors and a change of the
\* source language.
NextErrors ==
  \/ Listening
  \/ \E l \in SourceLangs : SetSourceLang(l)
  \/ \E j \in Sessions, e \in RecErrors : RecOnError(j, e)
  \/ \E j \in Sessions : RestartTimer(j)

SpecErrors == Init /\ [][NextErrors]_vars

\* One startListening at a time, without failures.
ListeningOnce ==
  \/ ToggleStopListening
  \/ \E j \in Sessions : ListenInFlight = {} /\ ToggleStartListening(j)
  \/ \E j \in Sessions : ListenMediaOk(j)
  \/ \E j \in Sessions : RecOnStart(j)

\* The local-recognition App with recognition results, translations and
\* speech.
NextResults ==
  \/ ListeningOnce
  \/ \E j \in Sessions, a \in Interims, b \in Finals : RecOnResult(j, a, b)
  \/ \E k \in 1..MaxInFlight, r \in Responses : TranslateDone(k, r)
  \/ UtteranceStart
  \/ UtteranceEnd

SpecResults == Init /\ [][NextResults]_vars

\* The local-recognition App with two different final transcripts, whose
\* translations may be in flight together.
SpokenFinals == {"Hello", "Hi"}

NextOrder ==
  \/ ListeningOnce
  \/ \E j \in Sessions, b \in SpokenFinals : RecOnResult(j, "", b)
  \/ \E k \in 1..MaxInFlight, r \in Responses : TranslateDone(k, r)
  \/ UtteranceStart
  \/ UtteranceEnd

SpecOrder == Init /\ [][NextOrder]_vars

\* Either App variant, one per behaviour: the streaming App, one attempt
\* at a time, with its transcription and turn-complete messages, or the
\* local-recognition App with one listening session, its results,
\* translations and speech.
StreamingUnused == \A i \in Sessions : pc[i] = "unused"
\* The messages whose transcription fields, where present, carry a text.
SpokenMsgs == {m \in TextMsgs : m.inT # "" /\ m.outT # ""}
LocalUnused == \A j \in Sessions : lpc[j] = "unused"

NextHistory ==
  \/ LocalUnused /\ ToggleStop
  \/ \E i \in Sessions : LocalUnused /\ StartAttempt(i, 1)
  \/ \E i \in Sessions : LocalUnused /\ Resumed(i)
  \/ \E i \in Sessions : LocalUnused /\ GetMediaOk(i)
  \/ \E i \in Sessions : LocalUnused /\ OnOpen(i)
  \/ \E i \in Sessions : LocalUnused /\ ConnectResolve(i)
  \/ \E i \in Sessions : LocalUnused /\ OnClose(i)
  \/ \E i \in Sessions, m \in SpokenMsgs : LocalUnused /\ Deliver(i, m)
  \/ StreamingUnused /\ ToggleStopListening
  \/ \E j \in Sessions : StreamingUnused /\ LocalUnused /\ ToggleStartListening(j)
  \/ \E j \in Sessions : StreamingUnused /\ ListenMediaOk(j)
  \/ \E j \in Sessions : StreamingUnused /\ RecOnStart(j)
  \/ \E j \in Sessions, a \in Interims, b \in Finals :
        StreamingUnused /\ RecOnResult(j, a, b)
  \/ \E k \in 1..MaxInFlight, r \in Responses : StreamingUnused /\ TranslateDone(k, r)
  \/ StreamingUnused /\ UtteranceStart
  \/ StreamingUnused /\ UtteranceEnd

SpecHistory == Init /\ [][NextHistory]_vars

\* The messages that carry transcriptions only.
TranscriptionMsgs == {m \in TextMsgs : ~m.tc}

\* The first or the third variant of the streaming App, one attempt at a
\* time, with the transcription messages.
NextTranscripts ==
  \/ Sequential
  \/ \E i \in Sessions, m \in TranscriptionMsgs : Deliver(i, m)

SpecTranscripts == InitVariants /\ [][NextTranscripts]_vars

\* One attempt at a time, with the audio the microphone captures.
NextCapture ==
  \/ Sequential
  \/ \E i \in Sessions : AudioProcessEvent(i)

SpecCapture == Init /\ [][NextCapture]_vars

\* The audio messages of the longest duration, not interrupted.
LongAudioMsgs == {Msg(NoField, NoField, MaxDur, FALSE, FALSE)}

\* One attempt at a time with the failures of a start and the errors of the
\* transport, and audio that is scheduled while the session is open.
NextStopPlay ==
  \/ NextFailures
  \/ \E i \in Sessions, m \in LongAudioMsgs : Deliver(i, m)
  \/ OnMessageResume

SpecStopPlay == Init /\ [][NextStopPlay]_vars

\* The second or the third variant: one attempt at a time, stopped by the
\* user once its handshake has completed, with the audio scheduled while it
\* is open, the output clock, the natural end of playback and the onclose
\* the transport reports after the stop.
NextLate ==
  \/ StartOnly
  \/ sessionRef # 0 /\ ToggleStop
  \/ \E i \in Sessions : conn[i] = "closing" /\ OnClose(i)
  \/ \E i \in Sessions, m \in LongAudioMsgs : Deliver(i, m)
  \/ OnMessageResume
  \/ \E u \in 1..MaxUnits : SourceEnded(u)
  \/ \E c \in Sessions : Tick(c)

SpecLate == InitLater /\ [][NextLate]_vars

\* ------------------------------------------------------------- properties
\* The release operations of r come in the order session handle,
\* microphone tracks, input audio context.
Rank(op) == IF op = "session.close" THEN 1 ELSE IF op = "track.stop" THEN 2 ELSE 3
ReleaseOrdered(r) ==
  \A a, b \in DOMAIN r : a < b => Rank(r[a].op) < Rank(r[b].op)

\* The step processes the turn-complete branch of an onmessage.
Awaits(m) == m.audio # 0 /\ outputAudioContextRef # 0
TurnCompleteProcessed ==
  \/ \E i \in Sessions, m \in TextMsgs \cup AudioMsgs :
       m.tc /\ ~Awaits(m) /\ OnMessage(i, m)
  \/ pending.tc /\ pending.dur # OddPayload /\ OnMessageResume

\* The step processes the interrupted branch of an onmessage.
InterruptProcessed ==
  \/ \E i \in Sessions, m \in TextMsgs \cup AudioMsgs :
       m.intr /\ ~Awaits(m) /\ OnMessage(i, m)
  \/ pending.intr /\ pending.dur # OddPayload /\ OnMessageResume

\* C1: when onclose or onerror arrives for a connection that is open, the
\* cleanup releases the session handle, the microphone tracks and the input
\* audio context in that order, and afterwards no track of that attempt is
\* live and sessionRef and inputAudioContextRef are null.
C1_BackendEndReleasesAll ==
  [][\A i \in Sessions :
       (conn[i] = "open" /\ (OnClose(i) \/ OnError(i)))
         => /\ mic'[i] # "live"
            /\ sessionRef' = 0
            /\ inputAudioContextRef' = 0
            /\ ReleaseOrdered(released')]_vars

\* C2: at most one session is active at a time: at most one start attempt
\* in flight, one live microphone stream, one open input audio context and
\* one connecting or open connection.
C2_AtMostOneActive ==
  /\ Cardinality(InFlight) <= 1
  /\ Cardinality({i \in Sessions : mic[i] = "live"}) <= 1
  /\ Cardinality({i \in Sessions : inCtx[i] = "open"}) <= 1
  /\ Cardinality({i \in Sessions : conn[i] \in {"connecting", "open"}}) <= 1

\* C3: the late onclose of an attempt that has been stopped and superseded
\* by a later attempt j leaves j alone: j's connection and input audio
\* context are not closed, the refs holding them are not cleared, and while
\* j is starting or connected isRecording and status are not reset.
C3_StaleCloseLeavesNewer ==
  [][\A i, j \in Sessions :
       (i < j /\ pc[j] # "unused" /\ conn[i] = "closing" /\ OnClose(i))
         => /\ conn'[j] = conn[j]
            /\ inCtx'[j] = inCtx[j]
            /\ (sessionRef = j => sessionRef' = j)
            /\ (inputAudioContextRef = j => inputAudioContextRef' = j)
            /\ ((j \in InFlight \/ conn[j] \in {"connecting", "open"})
                  => isRecording' = isRecording /\ status' = status)]_vars

\* C4: while the session is recording, history changes in a step if and
\* only if the step processes a turn-complete and the input text and the
\* output text received for that turn are both non-empty.
C4_HistoryIffTurnWithTexts ==
  [][isRecording
       => ((history' # history)
             <=> (TurnCompleteProcessed /\ turn'.inT # "" /\ turn'.outT # ""))]_vars

\* C5: Scenario A: when, in a session that is recording, a message with
\* input text s, then a message with output text t, then a turn-complete
\* message are received (s, t not empty), the turn-complete adds exactly the
\* entry (s, t) at the head of history.
C5_ScenarioA ==
  [][(isRecording /\ TurnCompleteProcessed /\ turn'.scen = 3)
       => history' = <<HistoryItem(turn'.inT, turn'.outT)>> \o history]_vars

C7_NotInThePastAfterInterrupt ==
  [][(intrSince /\ OnMessageResume)
       => units'[Len(units')].start >= currentTime[pending.ctx]]_vars

\* C8: processing an interrupted signal stops every unit of the active set
\* and leaves the set empty: no unit remains scheduled, however many were.
C8_InterruptEmptiesActiveSet ==
  [][InterruptProcessed
       => /\ sourcesRef' = {}
          /\ \A u \in sourcesRef : units'[u].st = "stopped"
          /\ \A u \in DOMAIN units' : units'[u].st # "scheduled"]_vars

\* An interruption has stopped two units at once and the set is empty.
C8_Witness ==
  /\ sourcesRef = {}
  /\ intrSince
  /\ Cardinality({u \in DOMAIN units : units[u].st = "stopped"}) >= 2

\* C9: when getUserMedia rejects for the only attempt in flight, the status
\* is 'Error' and neither a live microphone stream nor the input audio
\* context of the attempt remains (the context is closed and
\* inputAudioContextRef is null).
C9_PermissionDeniedLeavesNothing ==
  [][\A i \in Sessions :
       (InFlight = {i} /\ GetMediaFail(i))
         => /\ status' = "Error"
            /\ mic'[i] # "live"
            /\ inCtx'[i] # "open"
            /\ inputAudioContextRef' = 0]_vars

\* C10: when the connect promise of the only attempt in flight rejects
\* after the microphone was acquired, the cleanup of stop runs: the tracks
\* are stopped, the input audio context is closed, the stream state is null
\* and status is 'Error'.
C10_HandshakeFailureCleansUp ==
  [][\A i \in Sessions :
       (InFlight = {i} /\ ConnectReject(i))
         => /\ mic'[i] = "stopped"
            /\ inCtx'[i] = "closed"
            /\ stream' = 0
            /\ status' = "Error"]_vars

\* C11: when onerror arrives for the connection of the open session (the
\* connection is open, sessionRef holds it and no start is in flight), the
\* status is 'Error' once the handler has completed.
C11_ErrorStatusAfterOnError ==
  [][\A i \in Sessions :
       (conn[i] = "open" /\ sessionRef = i /\ InFlight = {} /\ OnError(i))
         => status' = "Error"]_vars

\* The step is a call of stopSession.
StopSessionCalled ==
  ToggleStop \/ \E i \in Sessions : OnClose(i) \/ OnError(i)

\* A state a stopSession call has produced and that no step of a start has
\* changed since: only stopSession sets 'Klar', every start sets another
\* status first, and the completions of a start set a ref, isRecording or
\* the status or leave the start in flight.
AfterStopSession ==
  /\ status = "Klar"
  /\ ~isRecording
  /\ sessionRef = 0
  /\ inputAudioContextRef = 0
  /\ InFlight = {}
  /\ \E i \in Sessions : pc[i] # "unused"

\* C12: a stopSession call that follows a stopSession call with no start in
\* between releases nothing (no close(), no stop() on tracks) and leaves the
\* React state, the refs, the microphone streams and the input audio
\* contexts as the first call left them.
C12_SecondStopIsNoOp ==
  [][(AfterStopSession /\ StopSessionCalled)
       => /\ released' = <<>>
          /\ reactState' = reactState
          /\ refs' = refs
          /\ mic' = mic
          /\ inCtx' = inCtx]_vars

\* C13: messages are processed in arrival order: while the onmessage of a
\* message A awaits the decode of its audio, no other handler step happens
\* (only the output clock may advance), and the next handler step is A's
\* own continuation, which completes every effect of A (its unit is started
\* and registered, its turn-complete and interrupted branches have run)
\* before the onmessage of any later message B begins.
C13_ArrivalOrder ==
  [][pending.s # 0
       => \/ \E c \in Sessions : Tick(c)
          \/ /\ OnMessageResume
             /\ pending' = NoPending
             /\ Len(units') = Len(units) + 1
             /\ units'[Len(units')].dur = pending.dur
             /\ pending.intr => sourcesRef' = {}]_vars

\* The onmessage of a second audio message awaits its decode after the
\* first message's unit has been registered.
C13_Witness ==
  /\ pending.s # 0
  /\ Len(units) >= 1
  /\ units[1].st = "scheduled"

\* C14: every step of either App variant leaves history unchanged or adds
\* exactly one entry at its head and keeps the entries it had, unmodified
\* and in their order, so an earlier value of history is a suffix of every
\* later one.
C14_HistoryGrowsAtHead ==
  [][\/ history' = history
     \/ /\ Len(history') = Len(history) + 1
        /\ SubSeq(history', 2, Len(history')) = history]_vars

\* The local-recognition App, or the streaming App, has logged two entries
\* that differ.
C14_Witness ==
  /\ Len(history) = 2
  /\ history[1] # history[2]

Abs(a) == IF a >= 0 THEN a ELSE -a

\* C15: for every chunk of samples in [-1, 1], after one encode/decode
\* cycle the decoded bytes are the encoded bytes, there are as many decoded
\* samples as input samples and each decoded sample y differs from its
\* input x by at most 1/32768.
C15_RoundTrip ==
  (codec.stage # "idle" /\ codec.cycle = 1)
    => /\ codec.stage # "failed"
       /\ codec.stage = "decoded"
            => /\ codec.received = codec.sent
               /\ Len(codec.output) = Len(codec.input)
               /\ \A k \in DOMAIN codec.input :
                    Abs(codec.output[k] * Resolution - codec.input[k]) <= Resolution

AllZero(q) == \A k \in DOMAIN q : q[k] = 0

\* C16: two consecutive encode/decode cycles on an all-zero chunk of any
\* length give an all-zero chunk of the same length, and no cycle fails.
C16_SilenceTwice ==
  AllZero(codec.first)
    => /\ codec.stage # "failed"
       /\ (codec.stage = "decoded" /\ codec.cycle = 2)
            => codec.output = [k \in 1..Len(codec.first) |-> 0]

\* Two cycles have been applied to two samples of silence.
C16_Witness ==
  /\ codec.stage = "decoded"
  /\ codec.cycle = 2
  /\ codec.first = <<0, 0>>

\* C17: the program connects only for a user start: a start attempt begins
\* only in a toggleRecording click made while not recording, a connection
\* is opened only by the startSession call of such an attempt, and no step
\* of onclose, onerror or the catch block begins an attempt or opens a
\* connection.
C17_NoAutomaticReconnect ==
  [][\A i \in Sessions :
       /\ (pc[i] = "unused" /\ pc'[i] # "unused") => (~isRecording /\ ToggleStart(i))
       /\ (conn[i] # "connecting" /\ conn'[i] = "connecting")
            => (pc[i] = "getMedia" /\ GetMediaOk(i))
       /\ (OnClose(i) \/ OnError(i) \/ GetMediaFail(i) \/ ConnectReject(i))
            => /\ \A j \in Sessions : pc'[j] = "unused" <=> pc[j] = "unused"
               /\ \A j \in Sessions : conn'[j] = "connecting" => conn[j] = "connecting"]_vars

\* A start has failed and a connection has been closed, and nothing is
\* connecting, open or starting.
C17_Witness ==
  /\ \E i \in Sessions : pc[i] = "failed"
  /\ \E i \in Sessions : conn[i] = "closed" /\ opened[i]
  /\ \A j \in Sessions : conn[j] \notin {"connecting", "open"}
  /\ InFlight = {}

\* C18: when the audio payload of a message has an odd byte length, the
\* decode fails and only the chunk is lost: no unit is scheduled, no cleanup
\* runs (connection, session handle, microphone and contexts stay as they
\* were, isRecording stays), the status does not become 'Error', the rest
\* of the message is handled (an interrupted flag empties the active set)
\* and the handler is free for the next message.
C18_BadChunkOnlyDropped ==
  [][(pending.dur = OddPayload /\ OnMessageResume)
       => /\ units' = units
          /\ <<conn, mic, inCtx, outCtx, refs, isRecording, released>>'
               = <<conn, mic, inCtx, outCtx, refs, isRecording, released>>
          /\ status' # "Error"
          /\ pending' = NoPending
          /\ pending.intr => sourcesRef' = {}]_vars

\* The step tears the running recognition down and calls startListening
\* with the configuration the step leaves.
RestartedWithNewConfig ==
  /\ rec'[recognitionRef].st = "stopping"
  /\ recognitionRef' = 0
  /\ \E j \in Sessions :
       /\ lpc[j] = "unused"
       /\ lpc'[j] = "getMedia"
       /\ lcap'[j].sourceLang = sourceLang'
       /\ lcap'[j].targetLang = targetLang'
       /\ lcap'[j].gender = gender'

\* C19: a step that changes the source language, the target language or
\* the gender while a session is active (recording, its recognition
\* running, no start in flight) stops that session and starts a new one
\* with the changed configuration.
C19_ConfigChangeRestarts ==
  [][(/\ isRecording
      /\ recognitionRef # 0
      /\ rec[recognitionRef].st = "running"
      /\ ListenInFlight = {}
      /\ <<sourceLang, targetLang, gender>>' # <<sourceLang, targetLang, gender>>)
       => RestartedWithNewConfig]_vars

\* C20: a 'no-speech' error while the user is recording is transient: when
\* the recognition has ended after the error and the timeout the error
\* handler set fires (the last step of the error handling), the
\* recognition the user is recording with is started, so listening goes
\* on without a click.
C20_NoSpeechRestarts ==
  [][\A j \in Sessions :
       (/\ isRecording
        /\ recognitionRef = j
        /\ ListenInFlight = {}
        /\ rec[j].st = "ended"
        /\ RestartTimer(j))
         => rec'[j].st = "starting"]_vars
\* C21 as stated: a settled translateText call has returned and not
\* thrown; for a blank text it returned '' and made no backend call; when
\* the backend call failed it returned 'Error in translation service'; when
\* the backend returned no text or the empty text it returned 'Translation
\* failed'; for every other response it returned the trimmed response text.
C21_TranslateTextAsStated ==
  call.stage = "settled"
    => /\ call.outcome.kind = "returned"
       /\ IF Blank(call.text)
            THEN call.outcome.value = "" /\ ~call.called
          ELSE IF call.resp = Throws
            THEN call.outcome.value = "Error in translation service"
          ELSE IF call.resp \in {NoField, ""}
            THEN call.outcome.value = "Translation failed"
          ELSE call.outcome.value = Trim(call.resp)

\* C21: a settled translateText call has returned and not thrown; for a
\* blank text it returned '' and the number of backend calls is the one
\* before the call; when the backend call failed it returned 'Error in
\* translation service'; when the backend returned no text or a text that
\* is empty once trimmed (the empty text, white space only) it returned
\* 'Translation failed'; otherwise it returned the trimmed response text.
C21_TranslateTextResults ==
  call.stage = "settled"
    => /\ call.outcome.kind = "returned"
       /\ IF Blank(call.text)
            THEN call.outcome.value = "" /\ ~call.called
          ELSE IF call.resp = Throws
            THEN call.outcome.value = "Error in translation service"
          ELSE IF call.resp = NoField \/ Trim(call.resp) = ""
            THEN call.outcome.value = "Translation failed"
          ELSE call.outcome.value = Trim(call.resp) /\ call.outcome.value # ""

\* A call with a text to translate has returned a response the backend had
\* padded with spaces, after an earlier backend call.
C21_Witness ==
  /\ call.stage = "settled"
  /\ call.text = " Hello "
  /\ call.resp = " Hola "
  /\ call.outcome = Returned("Hola")
  /\ call.backend = 2

\* C22: processing an interrupted signal leaves the scheduling anchor
\* (nextStartTimeRef) at the current time of the output clock, not at zero.
C22_InterruptResetsAnchorToClock ==
  [][InterruptProcessed
       => nextStartTimeRef' =
            currentTime[IF pending.s # 0 THEN pending.ctx ELSE outputAudioContextRef]]_vars

\* C23: when onmessage schedules a unit, the unit is started at the larger
\* of the anchor and the output clock's time at that moment, so never
\* before that time, however the clock has advanced while the decode was
\* awaited; the anchor then is the unit's end and the unit is in the active
\* set (unless the same message is interrupted).
C23_StartAtClockOfScheduling ==
  [][(OnMessageResume /\ pending.dur # OddPayload)
       => LET u == units'[Len(units')]
          IN /\ u.start = Max(nextStartTimeRef, currentTime[pending.ctx])
             /\ u.start >= currentTime[pending.ctx]
             /\ ~pending.intr
                  => /\ nextStartTimeRef' = u.start + u.dur
                     /\ Len(units') \in sourcesRef']_vars

\* C24: while the session is recording, processing a turn-complete signal
\* leaves the live transcript and the live translation empty, and a
\* turn-complete that follows a turn-complete of the same connection with
\* no message in between adds no history entry.
C24_TurnCompleteResetsTranscripts ==
  [][isRecording
       => /\ TurnCompleteProcessed => (transcript' = "" /\ translation' = "")
          /\ \A i \in Sessions :
               (/\ turn.done
                /\ turn.s = i
                /\ OnMessage(i, Msg(NoField, NoField, 0, TRUE, FALSE)))
                 => history' = history]_vars

\* The session is open: the handshake has completed (sessionRef holds the
\* open connection), the App is recording and holds the microphone stream
\* and the input audio context.
Open ==
  /\ isRecording
  /\ sessionRef # 0
  /\ conn[sessionRef] = "open"
  /\ stream # 0
  /\ inputAudioContextRef # 0

\* C25: a toggleRecording click while the session is open closes the
\* session handle, then stops the tracks of the microphone stream, then
\* closes the input audio context, in that order, and leaves isRecording
\* false, status 'Klar', stream null, sessionRef null and
\* inputAudioContextRef null.
C25_UserStopOrder ==
  [][(Open /\ ToggleStop)
       => /\ released' = <<[op |-> "session.close", of |-> sessionRef],
                           [op |-> "track.stop", of |-> stream],
                           [op |-> "inputCtx.close", of |-> inputAudioContextRef]>>
          /\ conn'[sessionRef] = "closing"
          /\ mic'[stream] = "stopped"
          /\ inCtx'[inputAudioContextRef] = "closed"
          /\ ~isRecording'
          /\ status' = "Klar"
          /\ stream' = 0
          /\ sessionRef' = 0
          /\ inputAudioContextRef' = 0]_vars

\* The user has stopped an open session: its connection is closing, its
\* microphone is stopped and its input audio context closed.
C25_Witness ==
  /\ Len(released) = 3
  /\ conn[released[1].of] = "closing"
  /\ mic[released[2].of] = "stopped"
  /\ inCtx[released[3].of] = "closed"
  /\ status = "Klar"
  /\ ~isRecording

\* C26: after onmessage has processed a message with an input
\* transcription carrying the text x, the live transcript is exactly x, and
\* after an output transcription carrying x the live translation is exactly
\* x, whatever the value was before and for every x, the empty text
\* included.
C26_TranscriptionOverwrites ==
  [][\A i \in Sessions, m \in TranscriptionMsgs :
       Deliver(i, m)
         => /\ m.inT # NoField => transcript' = m.inT
            /\ m.outT # NoField => translation' = m.outT]_vars

\* C27: no chunk is handed to sendRealtimeInput before the connect promise
\* of its attempt has resolved to a session, and no chunk is captured
\* before onopen has run.
C27_NoSendBeforeHandshake ==
  \A i \in Sessions :
    /\ capture[i].sent > 0 => pc[i] = "done"
    /\ capture[i].queued > 0 => pc[i] = "connect"
    /\ capture[i].queued + capture[i].sent > 0 => opened[i]

\* Two chunks captured between onopen and the resolution of the connect
\* promise have been sent after it.
C27_Witness ==
  \E i \in Sessions :
    /\ capture[i].sent = 2
    /\ capture[i].flushed = 2
    /\ sessionRef = i

\* C28: a stopSession call (from toggleRecording, onclose or onerror)
\* leaves the output side alone: the output audio contexts are not closed,
\* outputAudioContextRef is not cleared, and the playback anchor and the
\* active set are not changed.
C28_StopLeavesOutput ==
  [][StopSessionCalled
       => /\ outCtx' = outCtx
          /\ outputAudioContextRef' = outputAudioContextRef
          /\ nextStartTimeRef' = nextStartTimeRef
          /\ sourcesRef' = sourcesRef]_vars

\* The session has been stopped while units were scheduled: the output
\* context is open, its ref set, the anchor advanced and the active set not
\* empty.
C28_Witness ==
  /\ status = "Klar"
  /\ released # <<>>
  /\ outputAudioContextRef # 0
  /\ outCtx[outputAudioContextRef] = "open"
  /\ nextStartTimeRef > 0
  /\ Cardinality(sourcesRef) >= 2

\* C29: the active set (sourcesRef) holds exactly the units that have been
\* started and have neither ended (their onended has run) nor been stopped
\* by an interruption: no unit that has ended or was interrupted is in the
\* set, none is in it before it was started, and every started unit that is
\* still to end is in it.
C29_ActiveSetExact ==
  sourcesRef = {u \in DOMAIN units : units[u].st = "scheduled"}

\* A unit has ended, a later one was interrupted and a third one is
\* active.
C29_Witness ==
  /\ Len(units) = 3
  /\ units[1].st = "ended"
  /\ units[2].st = "stopped"
  /\ units[3].st = "scheduled"
  /\ sourcesRef = {3}

\* C30: in the local-recognition App a step adds a history entry only for
\* a final result whose transcript and translation are both non-empty, and
\* every final result gets exactly one entry: the result is either logged
\* in the step of its onresult or is one more translation in flight, and
\* the completion of a translation in flight logs exactly one entry.
C30_EntryOnlyWithTexts ==
  [][/\ history' # history
          => /\ Len(history') = Len(history) + 1
             /\ history'[1].originalText # ""
             /\ history'[1].translatedText # ""
     /\ \A j \in Sessions, a \in Interims, b \in Finals :
          (b # "" /\ RecOnResult(j, a, b))
            => Len(history') + Len(inflight') = Len(history) + Len(inflight) + 1
     /\ \A k \in 1..MaxInFlight, r \in Responses :
          TranslateDone(k, r)
            => /\ Len(history') = Len(history) + 1
               /\ Len(inflight') = Len(inflight) - 1]_vars

\* The 16-bit values an encoded chunk carries, read from its bytes.
SentInt16 == [k \in 1..(Len(codec.sent) \div 2) |-> Int16At(codec.sent, k)]

\* t is x * 32768 truncated toward zero, for the sample n = x * One.
IsTruncationOf(t, n) ==
  /\ Abs(t) * Resolution <= Abs(n)
  /\ Abs(n) < (Abs(t) + 1) * Resolution
  /\ (n >= 0 => t >= 0) /\ (n <= 0 => t <= 0)

\* C31: every sample of an encoded chunk is stored as a 16-bit signed
\* integer that is congruent modulo 2^16 to x * 32768 truncated toward
\* zero: equal to it when that lies in [-32768, 32767], wrapped and not
\* clamped otherwise, so that x = 1.0 is stored as -32768.
C31_TruncateAndWrap ==
  (codec.stage = "encoded" /\ codec.cycle = 1)
    => /\ Len(SentInt16) = Len(codec.input)
       /\ \A k \in DOMAIN codec.input :
            /\ SentInt16[k] \in -32768..32767
            /\ \E t \in (codec.input[k] \div Resolution - 1)..(codec.input[k] \div Resolution + 1) :
                 /\ IsTruncationOf(t, codec.input[k])
                 /\ (SentInt16[k] - t) % 65536 = 0
                 /\ t \in -32768..32767 => SentInt16[k] = t
            /\ codec.input[k] = One => SentInt16[k] = -32768

\* A chunk with the samples x = 1.0 and a value between two quantization
\* steps has been encoded: the first is stored wrapped, the second
\* truncated.
C31_Witness ==
  /\ codec.stage = "encoded"
  /\ codec.cycle = 1
  /\ codec.input = <<One, Resolution + 1>>
  /\ SentInt16 = <<-32768, 1>>

\* C32: when an interrupted signal has been processed the active set is
\* empty and no onmessage that began before it is still waiting for its
\* decode, so no payload that arrived earlier can be started afterwards;
\* from then on the set stays empty until the onmessage of a payload
\* delivered later resumes and registers its unit, the only unit the set
\* then holds.
C32_NothingOlderAfterInterrupt ==
  [][/\ InterruptProcessed => (sourcesRef' = {} /\ pending' = NoPending)
     /\ intrSince => sourcesRef = {}
     /\ (intrSince /\ sourcesRef' # {})
          => /\ pending.s # 0
             /\ OnMessageResume
             /\ Len(units') = Len(units) + 1
             /\ sourcesRef' = {Len(units')}]_vars

\* An interruption has stopped a unit and a payload delivered after it is
\* the only active unit.
C32_Witness ==
  /\ Len(units) = 2
  /\ units[1].st = "stopped"
  /\ units[2].st = "scheduled"
  /\ sourcesRef = {2}
  /\ ~intrSince

\* The step begins a start attempt.
StartBegins == \E i \in Sessions : pc[i] = "unused" /\ pc'[i] # "unused"

\* C33: from the completion of a user stop (the cleanup has run: status
\* 'Klar', not recording, no session handle, no input context, no start in
\* flight) every step that does not begin a start leaves isRecording false
\* and the status 'Klar'.
C33_StaysReadyAfterStop ==
  [][(AfterStopSession /\ ~StartBegins)
       => (~isRecording' /\ status' = "Klar")]_vars

\* C34: at most one output audio context is open at any time, however many
\* stop/start cycles have run.
C34_OneOutputContext ==
  Cardinality({i \in Sessions : outCtx[i] = "open"}) <= 1

\* The cleanup has run for attempt i: its session handle has been closed
\* or its transport has reported the close, or its input audio context has
\* been closed.
CleanedUp(i) == conn[i] \in {"closing", "closed"} \/ inCtx[i] = "closed"

\* C35: no chunk is handed to sendRealtimeInput on the session of an
\* attempt for which the cleanup has run.
C35_NoSendAfterCleanup ==
  [][\A i \in Sessions :
       capture'[i].sent > capture[i].sent => ~CleanedUp(i)]_vars

\* The local-recognition App is stopped: stopListening has cleared
\* isRecording and recognitionRef, and no startListening is under way.
StoppedListening == ~isRecording /\ recognitionRef = 0 /\ ListenInFlight = {}

\* C36: while the local-recognition App is stopped, no recognition instance
\* is started or restarted.
C36_NoStartWhileStopped ==
  [][StoppedListening =>
       \A j \in Sessions : rec'[j].st = "starting" => rec[j].st = "starting"]_vars

\* C37: while the local-recognition App is stopped and its status is still
\* the 'Klar' of the stop (so that every translation in flight was begun
\* before the stop), the completion of a translation adds no history entry
\* and queues no utterance, and no utterance that starts changes the
\* status.
C37_LateTranslationHasNoEffect ==
  [][StoppedListening /\ status = "Klar" =>
       /\ Len(inflight') < Len(inflight) =>
            history' = history /\ speech' = speech /\ status' = "Klar"
       /\ (~speaking /\ speaking') => status' = "Klar"]_vars

\* C38: a history entry is added in the order of recognition: the entry a
\* step adds is the one of the oldest final transcript whose translation is
\* in flight, and the utterance it queues is that entry's translation.
C38_EntriesInRecognitionOrder ==
  [][(Len(history') > Len(history) /\ inflight # <<>>) =>
       /\ history'[1].originalText = inflight[1].text
       /\ inflight' = Tail(inflight)
       /\ speech' = Speak(history'[1].translatedText, speech)]_vars

\* C39: when the transport has reported close or error on the connection of
\* attempt i before its connect promise settled, then once the continuation
\* of the await has run as well, sessionRef holds no session, isRecording is
\* false, and the microphone and the input context of attempt i are
\* released.
C39_CloseBeforeSettleReleasesAll ==
  [][\A i \in Sessions :
       (pc[i] = "connect" /\ conn[i] \in {"closing", "closed"}
          /\ pc'[i] \in {"done", "failed"}) =>
         /\ sessionRef' = 0
         /\ ~isRecording'
         /\ mic'[i] # "live"
         /\ inCtx'[i] = "closed"]_vars
====
